---------------------------- MODULE Spec2Model ----------------------------
(***************************************************************************)
(* Model of the scale-bar addition tool: the generic pipeline              *)
(* (_scale_bar_gcode_images.py) and the scope-specific pipeline            *)
(* (add_scale_bar_IX71.py).                                                *)
(*                                                                         *)
(* Paths are sequences of one-character strings, so that endswith, "in",   *)
(* slicing and the regular-expression search are computed character by     *)
(* character as the Python code computes them.  An image file's content is *)
(* a record: whether cv2.imread can decode it, its width, height and       *)
(* channel count, and the list of scale bars drawn on it so far.           *)
(***************************************************************************)
EXTENDS Integers, Sequences, FiniteSets, TLC

VARIABLES pipeline, fs, last, walk, runs, firstRun

vars == <<pipeline, fs, last, walk, runs, firstRun>>

----------------------------------------------------------------------------
(* Bounds of the model *)

\* longest stem of a file name, in chunks of StemChunks
MaxChunks == 2
\* most children a walked directory starts with
MaxFiles == 2
\* most directory runs in one behaviour
MaxRuns == 2

----------------------------------------------------------------------------
(* Program constants *)

\* add_scale_bar_IX71.py
scale_pixel_4X_1X_100_um == 53
scale_pixel_10X_1X_100_um == 132
scale_pixel_40X_1X_100_um == 540
ScopeXOffset == 60
ScopeYOffset == 80
ScopeThickness == 30
ScopeWidth == 1920
ScopeHeight == 1440
ScopeDisplayNumber == TRUE

\* _scale_bar_gcode_images.py
scale_pixel_1000_um == 24
GenericXOffset == 10
GenericYOffset == 35
GenericThickness == 25
GenericDisplayNumber == FALSE

\* the "[:-4]" of both output paths
ExtLen == 4

----------------------------------------------------------------------------
(* Strings as character sequences *)

\* str.lower() on the letters the model's alphabet has in upper case
LowerChar(c) ==
    CASE c = "X" -> "x"
      [] c = "P" -> "p"
      [] c = "N" -> "n"
      [] c = "G" -> "g"
      [] OTHER -> c

Lower(s) == [i \in 1..Len(s) |-> LowerChar(s[i])]

\* s[i:i+len(p)] == p
HasAt(s, i, p) ==
    /\ i >= 1
    /\ i + Len(p) - 1 <= Len(s)
    /\ \A k \in 1..Len(p) : s[i + k - 1] = p[k]

\* the same comparison under re.IGNORECASE
HasAtCI(s, i, p) == HasAt(Lower(s), i, Lower(p))

\* s.endswith(p)
EndsWith(s, p) == HasAt(s, Len(s) - Len(p) + 1, p)

\* p in s
Contains(s, p) == \E i \in 1..Len(s) : HasAt(s, i, p)

\* s[:-n]
DropLast(s, n) == IF Len(s) <= n THEN << >> ELSE SubSeq(s, 1, Len(s) - n)

\* os.path.join(directory_path, name)
PathJoin(d, name) == d \o <<"/">> \o name

\* the last component of a path (the file name)
RECURSIVE BaseName(_)
BaseName(p) ==
    IF \E i \in 1..Len(p) : p[i] = "/"
    THEN BaseName(Tail(p))
    ELSE p

SCALED == <<"_", "s", "c", "a", "l", "e", "d">>
TIF == <<".", "t", "i", "f">>
PNG == <<".", "p", "n", "g">>
PNGUpper == <<".", "P", "N", "G">>

K4X1X == <<"4", "X", "_", "1", "X">>
K4X16X == <<"4", "X", "_", "1", ".", "6", "X">>
K10X1X == <<"1", "0", "X", "_", "1", "X">>
K10X16X == <<"1", "0", "X", "_", "1", ".", "6", "X">>
K40X1X == <<"4", "0", "X", "_", "1", "X">>
K40X16X == <<"4", "0", "X", "_", "1", ".", "6", "X">>

ScopeKeys == {K4X1X, K4X16X, K10X1X, K10X16X, K40X1X, K40X16X}

\* scope_type is None (the argument omitted)
NoKey == <<"None">>


\* explicit scope_type arguments that are not table keys
KEmpty == << >>
K20X1X == <<"2", "0", "X", "_", "1", "X">>
K10x16xLower == <<"1", "0", "x", "_", "1", ".", "6", "x">>

ScopeArgs == ScopeKeys \cup {NoKey, KEmpty, K20X1X, K10x16xLower}

----------------------------------------------------------------------------
(* The environment of one process *)

Platforms == {"darwin", "win32", "linux", "freebsd"}

\* the three branches on sys.platform that choose font_path
PlatformSupported(plat) == plat \in {"darwin", "win32", "linux"}

----------------------------------------------------------------------------
(* Image contents *)

\* a decodable image of w x h pixels with ch channels and nothing drawn on it
Img(w, h, ch) == [ok |-> TRUE, w |-> w, h |-> h, ch |-> ch, bars |-> << >>]

\* a file cv2.imread cannot decode (it returns None)
Undecodable == [ok |-> FALSE, w |-> 0, h |-> 0, ch |-> 0, bars |-> << >>]

Contents ==
    { Undecodable,
      Img(1920, 1440, 3), Img(1920, 1440, 1), Img(1440, 1920, 3),
      Img(250, 35, 3), Img(249, 35, 3), Img(250, 34, 3) }

----------------------------------------------------------------------------
(* detect_scope_type_from_filename *)

\* length of the match of one alternative "<prefix>(?:\.6)?X" at position i,
\* 0 when it does not match there; the optional group is tried first (greedy)
AltLenAt(s, i, prefix) ==
    IF ~HasAtCI(s, i, prefix) THEN 0
    ELSE IF HasAtCI(s, i + Len(prefix), <<".", "6", "X">>) THEN Len(prefix) + 3
    ELSE IF HasAtCI(s, i + Len(prefix), <<"X">>) THEN Len(prefix) + 1
    ELSE 0

\* the alternatives in pattern order: 4X_1..., 10X_1..., 40X_1...
MatchLenAt(s, i) ==
    LET a == AltLenAt(s, i, <<"4", "X", "_", "1">>)
        b == AltLenAt(s, i, <<"1", "0", "X", "_", "1">>)
        c == AltLenAt(s, i, <<"4", "0", "X", "_", "1">>)
    IN  IF a > 0 THEN a ELSE IF b > 0 THEN b ELSE c

\* the rightmost position with a match
LastMatchStart(s) ==
    IF \E i \in 1..Len(s) : MatchLenAt(s, i) > 0
    THEN CHOOSE i \in 1..Len(s) :
            /\ MatchLenAt(s, i) > 0
            /\ \A j \in (i + 1)..Len(s) : MatchLenAt(s, j) = 0
    ELSE 0

\* re.search: the leftmost position with a match, 0 when there is none
FirstMatchStart(s) ==
    IF \E i \in 1..Len(s) : MatchLenAt(s, i) > 0
    THEN CHOOSE i \in 1..Len(s) :
            /\ MatchLenAt(s, i) > 0
            /\ \A j \in 1..(i - 1) : MatchLenAt(s, j) = 0
    ELSE 0

\* match.group(): the matched text as it is written in the path, "" when
\* there is no match
detect_scope_type_from_filename(image_path) ==
    LET i == FirstMatchStart(image_path)
    IN  IF i = 0 THEN << >>
        ELSE SubSeq(image_path, i, i + MatchLenAt(image_path, i) - 1)

----------------------------------------------------------------------------
(* The calibration table of the scope-specific pipeline *)

\* the product rounded to the nearest integer
IntOfProductRounded(base, num, den) == (2 * base * num + den) \div (2 * den)

\* int(base * num / den) of a non-negative product: Python's int() truncates.
\* The multipliers are decimal fractions (1.6 * 2 = 32/10, 1.6 * 0.3 = 48/100);
\* the float products 169.6, 211.2 and 259.2 are far from an integer, so the
\* float rounding does not change the truncated value.
IntOfProduct(base, num, den) == (base * num) \div den

NoEntry == [valid |-> FALSE, size |-> 0, label |-> ""]

\* the if/elif chain on scope_type: exact, case-sensitive string comparison
Resolve(scope_type) ==
    IF scope_type = K4X1X THEN
        [valid |-> TRUE, size |-> IntOfProduct(scale_pixel_4X_1X_100_um, 3, 1),
         label |-> "300 μm"]
    ELSE IF scope_type = K4X16X THEN
        [valid |-> TRUE, size |-> IntOfProduct(scale_pixel_4X_1X_100_um, 32, 10),
         label |-> "200 μm"]
    ELSE IF scope_type = K10X1X THEN
        [valid |-> TRUE, size |-> IntOfProduct(scale_pixel_10X_1X_100_um, 15, 10),
         label |-> "150 μm"]
    ELSE IF scope_type = K10X16X THEN
        [valid |-> TRUE, size |-> IntOfProduct(scale_pixel_10X_1X_100_um, 16, 10),
         label |-> "100 μm"]
    ELSE IF scope_type = K40X1X THEN
        [valid |-> TRUE, size |-> IntOfProduct(scale_pixel_40X_1X_100_um, 5, 10),
         label |-> "50 μm"]
    ELSE IF scope_type = K40X16X THEN
        [valid |-> TRUE, size |-> IntOfProduct(scale_pixel_40X_1X_100_um, 48, 100),
         label |-> "30 μm"]
    ELSE NoEntry

\* inference also for an explicit key that is not in the table
NeedsDetectUnlessValid(scope_type) ==
    scope_type = NoKey \/ scope_type = << >> \/ scope_type \notin ScopeKeys

\* "if not scope_type": None and the empty string are both falsy
NeedsDetect(scope_type) == scope_type = NoKey \/ scope_type = << >>

----------------------------------------------------------------------------
(* add_scale_bar *)

ErrorOutcomes ==
    {"not_exist", "bad_ext", "bad_size", "undetected", "invalid_scope",
     "unsupported_os"}

\* exceptions no code of the repository catches
Exceptions == {"AttributeError", "cv2.error", "OSError"}

\* what one call of add_scale_bar did
Res(outcome, size, label, pos, drawn, out, image) ==
    [outcome |-> outcome, size |-> size, label |-> label,
     x |-> pos[1], y |-> pos[2], drawn |-> drawn, output |-> out,
     image |-> image]

Early(outcome) == Res(outcome, 0, "", <<0, 0>>, FALSE, << >>, Undecodable)

\* the x offset added instead of subtracted
PositionPlusOffset(w, h, size, xoff, yoff) == <<w - size + xoff, h - yoff>>

\* position = (shape[1] - scale_bar_size - x_offset, shape[0] - y_offset)
Position(w, h, size, xoff, yoff) == <<w - size - xoff, h - yoff>>

\* the output path without the marker
OutputPathInPlace(image_path, ext) == DropLast(image_path, ExtLen) \o ext

\* output_path = image_path[:-4] + "_scaled" + ext
OutputPath(image_path, ext) == DropLast(image_path, ExtLen) \o SCALED \o ext

\* cv2.rectangle(image, position, (x + size, y + thickness), thickness=-1),
\* draw.text(label), and the BGR->RGB->BGR conversions, which leave 3 channels
DrawBar(image, pos, size, thick, label) ==
    [image EXCEPT
        !.ch = 3,
        !.bars = Append(@, [x |-> pos[1], y |-> pos[2], x2 |-> pos[1] + size,
                            y2 |-> pos[2] + thick, label |-> label])]

\* the same code with the image saved before the font is chosen
DrawAndSaveThenFont(image_path, image, size, label, xoff, yoff, thick, ext, plat, font) ==
    LET pos == Position(image.w, image.h, size, xoff, yoff)
        saved(outcome) == Res(outcome, size, label, pos, TRUE,
                              OutputPath(image_path, ext),
                              DrawBar(image, pos, size, thick, label))
    IN  IF image.ch = 1
        THEN Res("cv2.error", size, label, pos, TRUE, << >>, Undecodable)
        ELSE IF ~PlatformSupported(plat) THEN saved("unsupported_os")
        ELSE IF ~font THEN saved("OSError")
        ELSE saved("ok")

\* from "Define the position" to cv2.imwrite: the same code in both pipelines
DrawAndSave(image_path, image, size, label, xoff, yoff, thick, ext, plat, font) ==
    LET pos == Position(image.w, image.h, size, xoff, yoff)
        stop(outcome) == Res(outcome, size, label, pos, TRUE, << >>, Undecodable)
    IN  IF image.ch = 1 THEN stop("cv2.error")
        ELSE IF ~PlatformSupported(plat) THEN stop("unsupported_os")
        ELSE IF ~font THEN stop("OSError")
        ELSE Res("ok", size, label, pos, TRUE, OutputPath(image_path, ext),
                 DrawBar(image, pos, size, thick, label))

\* add_scale_bar(image_path) of the generic pipeline
GenericAddScaleBar(files, image_path, plat, font) ==
    IF image_path \notin DOMAIN files THEN Early("not_exist")
    ELSE IF ~EndsWith(Lower(image_path), PNG) THEN Early("bad_ext")
    ELSE IF ~files[image_path].ok THEN Early("AttributeError")
    ELSE DrawAndSave(image_path, files[image_path],
                     IntOfProduct(scale_pixel_1000_um, 10, 1),
                     IF GenericDisplayNumber THEN "1 cm" ELSE "",
                     GenericXOffset, GenericYOffset, GenericThickness, PNG,
                     plat, font)

\* add_scale_bar(image_path, scope_type) of the scope-specific pipeline
ScopeAddScaleBar(files, image_path, scope_type, plat, font) ==
    IF image_path \notin DOMAIN files THEN Early("not_exist")
    ELSE IF ~EndsWith(image_path, TIF) THEN Early("bad_ext")
    ELSE LET image == files[image_path]
             key == IF NeedsDetect(scope_type)
                    THEN detect_scope_type_from_filename(image_path)
                    ELSE scope_type
             entry == Resolve(key)
         IN  IF ~image.ok \/ image.h # ScopeHeight \/ image.w # ScopeWidth
             THEN Early("bad_size")
             ELSE IF NeedsDetect(scope_type) /\ key = << >>
             THEN Early("undetected")
             ELSE IF ~entry.valid THEN Early("invalid_scope")
             ELSE DrawAndSave(image_path, image, entry.size,
                              IF ScopeDisplayNumber THEN entry.label ELSE "",
                              ScopeXOffset, ScopeYOffset, ScopeThickness, TIF,
                              plat, font)

AddScaleBar(pl, files, image_path, scope_type, plat, font) ==
    IF pl = "generic"
    THEN GenericAddScaleBar(files, image_path, plat, font)
    ELSE ScopeAddScaleBar(files, image_path, scope_type, plat, font)

\* the files on disk after the call: cv2.imwrite(output_path, image) creates
\* or overwrites output_path, and runs only when the call got that far
FilesAfter(files, res) ==
    IF res.output = << >> THEN files
    ELSE [p \in DOMAIN files \cup {res.output} |->
            IF p = res.output THEN res.image ELSE files[p]]

ExtOf(pl) == IF pl = "generic" THEN PNG ELSE TIF

----------------------------------------------------------------------------
(* Inputs *)

\* the pieces file-name stems are built from
StemChunks == { <<"a">>, K4X1X, K10X16X, K10x16xLower, SCALED }

RECURSIVE ChunkSeqs(_)
ChunkSeqs(k) ==
    IF k = 0 THEN { << >> }
    ELSE { c \o s : c \in StemChunks, s \in ChunkSeqs(k - 1) }

Stems == UNION { ChunkSeqs(k) : k \in 1..MaxChunks }

Exts == { TIF, PNG, PNGUpper }

\* a plain directory, and one whose own path holds a key and the marker
Dirs == { <<"d">>, K40X1X \o SCALED }

Pipelines == {"generic", "scope"}

\* the scope_type arguments a pipeline's command line can pass
ArgsOf(pl) == IF pl = "generic" THEN {NoKey} ELSE ScopeArgs

----------------------------------------------------------------------------
(* State *)

\* the record of the latest add_scale_bar call: its arguments, the files
\* before it, and what it did
CallRecord(path, scope_type, before, res) ==
    [path |-> path, scope_type |-> scope_type, before |-> before,
     outcome |-> res.outcome, size |-> res.size, label |-> res.label,
     x |-> res.x, y |-> res.y, drawn |-> res.drawn, output |-> res.output]

NoCall(path, files) == CallRecord(path, NoKey, files, Early("none"))

\* a file left by an earlier session at the place the output will go
StaleContent == Img(250, 35, 3)

\* the directory walker: its arguments and process environment, the glob
\* result still to visit, and what the loop did so far
WalkRecord(status, dir, scope_type, plat, font, snapshot, pending, attempted, count) ==
    [status |-> status, dir |-> dir, scope_type |-> scope_type,
     plat |-> plat, font |-> font, snapshot |-> snapshot,
     pending |-> pending, attempted |-> attempted, count |-> count]

IdleWalk(dir, scope_type, plat, font) ==
    WalkRecord("idle", dir, scope_type, plat, font, {}, {}, {}, 0)

----------------------------------------------------------------------------
(* Single-file mode: "tool <file> [scope_type]", or add_scale_bar called     *)
(* directly with one path                                                    *)

FileInit ==
    /\ pipeline \in Pipelines
    /\ \E d \in Dirs, stem \in Stems, ext \in Exts,
          present \in BOOLEAN, c \in Contents, stale \in BOOLEAN :
          LET path == PathJoin(d, stem \o ext)
              out == OutputPath(path, ExtOf(pipeline))
              dom == (IF present THEN {path} ELSE {})
                        \cup (IF stale THEN {out} ELSE {})
          IN  /\ present \/ c = Undecodable
              /\ fs = [p \in dom |-> IF p = path /\ present THEN c
                                     ELSE StaleContent]
              /\ last = NoCall(path, fs)
              /\ walk = IdleWalk(d, NoKey, "linux", TRUE)
    /\ runs = 0
    /\ firstRun = {}

\* one call add_scale_bar(path[, scope_type]) in a process on platform plat,
\* where the font file can be loaded or not
Call ==
    /\ last.outcome = "none"
    /\ walk.status = "idle"
    /\ \E key \in ArgsOf(pipeline), plat \in Platforms, font \in BOOLEAN :
          LET res == AddScaleBar(pipeline, fs, last.path, key, plat, font)
          IN  /\ fs' = FilesAfter(fs, res)
              /\ last' = CallRecord(last.path, key, fs, res)
    /\ UNCHANGED <<pipeline, walk, runs, firstRun>>

FileNext == Call

FileSpec == FileInit /\ [][FileNext]_vars

----------------------------------------------------------------------------
(* Directory mode: "tool <directory> [scope_type]", run again and again in   *)
(* the same environment with the same arguments                              *)

\* the names of the children a directory may start with
WalkStems ==
    { <<"a">>, <<"a">> \o SCALED, <<"a">> \o SCALED \o <<"b">>, K4X1X }

WalkNames == { stem \o ext : stem \in WalkStems, ext \in {TIF, PNG} }

WalkContents == { Img(1920, 1440, 3), Undecodable }

WalkArgs(pl) == IF pl = "generic" THEN {NoKey} ELSE {NoKey, K10X1X}

Init ==
    /\ pipeline \in Pipelines
    /\ \E d \in Dirs, names \in SUBSET WalkNames :
          /\ Cardinality(names) <= MaxFiles
          /\ \E content \in [names -> WalkContents] :
                fs = [p \in { PathJoin(d, n) : n \in names } |->
                        content[SubSeq(p, Len(d) + 2, Len(p))]]
          /\ \E key \in WalkArgs(pipeline), plat \in Platforms, font \in BOOLEAN :
                walk = IdleWalk(d, key, plat, font)
    /\ last = NoCall(<< >>, fs)
    /\ runs = 0
    /\ firstRun = {}

\* glob.glob(os.path.join(directory_path, "*" + ext)): the children whose name
\* ends with ext and does not start with a dot, in arbitrary order
Glob(files, dir, ext) ==
    { p \in DOMAIN files :
        /\ p = PathJoin(dir, BaseName(p))
        /\ EndsWith(BaseName(p), ext)
        /\ BaseName(p)[1] # "." }

\* the loop's test for a file to pass over:
\*   generic: "_scaled" in image_path;  scope: image_file.endswith("_scaled.tif")
Skips(pl, image_path) ==
    IF pl = "generic"
    THEN Contains(image_path, SCALED)
    ELSE EndsWith(image_path, SCALED \o TIF)

\* process_directory up to the loop: the directory is listed once
StartWalk ==
    /\ walk.status # "running"
    /\ runs < MaxRuns
    /\ walk' = [walk EXCEPT !.status = "running",
                            !.snapshot = DOMAIN fs,
                            !.pending = Glob(fs, walk.dir, ExtOf(pipeline)),
                            !.attempted = {},
                            !.count = 0]
    /\ UNCHANGED <<pipeline, fs, last, runs, firstRun>>

\* one iteration of the loop, on any file the listing still holds; an
\* exception raised in add_scale_bar leaves the loop and ends the process
WalkStep ==
    /\ walk.status = "running"
    /\ \E p \in walk.pending :
          IF Skips(pipeline, p)
          THEN /\ walk' = [walk EXCEPT !.pending = @ \ {p}]
               /\ UNCHANGED <<fs, last, runs, firstRun>>
          ELSE LET res == AddScaleBar(pipeline, fs, p, walk.scope_type,
                                      walk.plat, walk.font)
                   raised == res.outcome \in Exceptions
               IN  /\ fs' = FilesAfter(fs, res)
                   /\ last' = CallRecord(p, walk.scope_type, fs, res)
                   /\ walk' = [walk EXCEPT
                                 !.pending = @ \ {p},
                                 !.attempted = @ \cup {p},
                                 !.count = IF raised THEN @ ELSE @ + 1,
                                 !.status = IF raised THEN "crashed" ELSE @]
                   /\ runs' = IF raised THEN runs + 1 ELSE runs
                   /\ firstRun' = IF raised /\ runs = 0
                                  THEN walk.attempted \cup {p} ELSE firstRun
    /\ UNCHANGED pipeline

\* the loop is over: the generic pipeline returns early on an empty listing
\* and prints the count otherwise
WalkEnd ==
    /\ walk.status = "running"
    /\ walk.pending = {}
    /\ walk' = [walk EXCEPT !.status =
                   IF pipeline = "generic"
                      /\ Glob([p \in walk.snapshot |-> Undecodable], walk.dir, PNG) = {}
                   THEN "nofiles" ELSE "done"]
    /\ runs' = runs + 1
    /\ firstRun' = IF runs = 0 THEN walk.attempted ELSE firstRun
    /\ UNCHANGED <<pipeline, fs, last>>

Next == StartWalk \/ WalkStep \/ WalkEnd

Spec == Init /\ [][Next]_vars

----------------------------------------------------------------------------
(* Properties.  The expected values below are written out from the          *)
(* specification's tables and formulas, independently of the operators      *)
(* above.                                                                   *)

\* the calibration table of the specification, section 6
TableEntry(key) ==
    CASE key = K4X1X   -> [size |-> 159, label |-> "300 μm"]
      [] key = K4X16X  -> [size |-> 169, label |-> "200 μm"]
      [] key = K10X1X  -> [size |-> 198, label |-> "150 μm"]
      [] key = K10X16X -> [size |-> 211, label |-> "100 μm"]
      [] key = K40X1X  -> [size |-> 270, label |-> "50 μm"]
      [] key = K40X16X -> [size |-> 259, label |-> "30 μm"]

Called == last.outcome # "none"

\* the image the latest call was given
InputImage == last.before[last.path]

\* the latest call was the scope-specific add_scale_bar on an existing .tif
\* of 1920x1440, so that it got as far as resolving the scope type
ScopeInputOk ==
    /\ pipeline = "scope"
    /\ Called
    /\ last.path \in DOMAIN last.before
    /\ EndsWith(last.path, TIF)
    /\ InputImage.ok /\ InputImage.w = 1920 /\ InputImage.h = 1440

ResolvedTo(key) ==
    /\ last.size = TableEntry(key).size
    /\ last.label = TableEntry(key).label

\* some key is written at position j of s, in any mix of cases
KeyTextAt(s, j) == \E k \in ScopeKeys : HasAtCI(s, j, k)

\* the first position of p in s (p occurs in s)
FirstIndexOf(s, p) ==
    CHOOSE i \in 1..Len(s) :
        HasAt(s, i, p) /\ \A j \in 1..(i - 1) : ~HasAt(s, j, p)

(* C1: in the scope-specific pipeline, each of the six keys given explicitly *)
(* on an existing .tif of 1920x1440 resolves to the bar length and label of  *)
(* the table: 159/300, 169/200, 198/150, 211/100, 270/50, 259/30.            *)
C1_ExplicitKeyTable ==
    (ScopeInputOk /\ last.scope_type \in ScopeKeys)
        => ResolvedTo(last.scope_type)

C1_Witness ==
    /\ ScopeInputOk
    /\ last.scope_type = K40X16X
    /\ last.size = 259
    /\ last.outcome = "ok"

(* C2 as stated: with no explicit key, every path that contains "10X_1.6X"   *)
(* anywhere resolves to the 10X_1.6X entry (211 px, "100 μm"), whatever text *)
(* precedes or follows it.                                                   *)
C2_AnywhereInPath ==
    (ScopeInputOk /\ last.scope_type = NoKey /\ Contains(last.path, K10X16X))
        => ResolvedTo(K10X16X)

(* C2 amended: with no explicit key, every path that contains "10X_1.6X" and *)
(* has no key pattern (in any case) starting before the first "10X_1.6X"     *)
(* resolves to the 10X_1.6X entry (211 px, "100 μm"), whatever follows it.   *)
C2_FirstOccurrence ==
    ( /\ ScopeInputOk
      /\ last.scope_type = NoKey
      /\ Contains(last.path, K10X16X)
      /\ \A j \in 1..(FirstIndexOf(last.path, K10X16X) - 1) :
            ~KeyTextAt(last.path, j) )
        => ResolvedTo(K10X16X)

C2_Witness ==
    /\ ScopeInputOk
    /\ last.scope_type = NoKey
    /\ last.path = PathJoin(<<"d">>, K10X16X \o K4X1X \o TIF)
    /\ last.size = 211
    /\ last.outcome = "ok"

(* C4: a run of add_scale_bar that ends in an error outcome (file missing,   *)
(* wrong extension, wrong size, scope type not detected, invalid scope type, *)
(* unsupported platform) leaves the files on disk and their contents as they *)
(* were: no output file is created or overwritten.                           *)
C4_ErrorsWriteNothing ==
    (Called /\ last.outcome \in ErrorOutcomes) => fs = last.before

C4_Witness ==
    /\ Called
    /\ last.outcome = "unsupported_os"
    /\ last.drawn
    /\ DropLast(last.path, 4) \o SCALED \o ExtOf(pipeline) \in DOMAIN fs

(* C6 as stated: an explicit key alone determines the entry; an explicit key *)
(* that is not one of the six fails with the invalid-scope-type error, and a *)
(* valid explicit key is used whatever the filename contains.                *)
C6_ExplicitKeyAlone ==
    (ScopeInputOk /\ last.scope_type # NoKey)
        => IF last.scope_type \in ScopeKeys
           THEN ResolvedTo(last.scope_type) /\ last.outcome # "invalid_scope"
           ELSE last.outcome = "invalid_scope"

(* C6 amended: a non-empty explicit key alone determines the entry; one that *)
(* is not a table key fails with the invalid-scope-type error, and a valid   *)
(* one is used whatever the filename contains.  (The empty string is treated *)
(* as no key.)                                                               *)
C6_NonEmptyKeyAlone ==
    (ScopeInputOk /\ last.scope_type # NoKey /\ last.scope_type # << >>)
        => IF last.scope_type \in ScopeKeys
           THEN ResolvedTo(last.scope_type) /\ last.outcome # "invalid_scope"
           ELSE last.outcome = "invalid_scope"

C6_Witness ==
    /\ ScopeInputOk
    /\ last.scope_type = K20X1X
    /\ Contains(last.path, K4X1X)
    /\ last.outcome = "invalid_scope"

(* C7: with no explicit key, inference is case-insensitive: a filename whose *)
(* first key pattern is written in any mix of cases resolves to that key's   *)
(* entry and the image is annotated with its bar length and label.           *)
C7_CaseInsensitive ==
    (ScopeInputOk /\ last.scope_type = NoKey)
        => \A k \in ScopeKeys, j \in 1..Len(last.path) :
              ( /\ HasAtCI(last.path, j, k)
                /\ \A i \in 1..(j - 1) : ~KeyTextAt(last.path, i) )
                  => ResolvedTo(k) /\ last.outcome # "invalid_scope"

(* C9: a successful run writes exactly one file, at the input path minus its *)
(* last four characters plus "_scaled.png" (generic) or "_scaled.tif"        *)
(* (scope-specific); that path differs from the input path and the input     *)
(* file is not overwritten.                                                  *)
C9_OneOutputBesideInput ==
    (Called /\ last.outcome = "ok")
        => LET out == SubSeq(last.path, 1, Len(last.path) - 4) \o SCALED
                        \o (IF pipeline = "generic" THEN PNG ELSE TIF)
           IN  /\ last.output = out
               /\ out # last.path
               /\ DOMAIN fs = DOMAIN last.before \cup {out}
               /\ \A p \in DOMAIN last.before \ {out} : fs[p] = last.before[p]
               /\ fs[last.path] = InputImage
               /\ Len(fs[out].bars) = Len(InputImage.bars) + 1

C9_Witness ==
    /\ Called
    /\ last.outcome = "ok"
    /\ pipeline = "generic"
    /\ EndsWith(last.path, PNGUpper)
    /\ EndsWith(last.output, SCALED \o PNG)
    /\ last.output \in DOMAIN last.before

\* the bar the latest call drew, with the offsets and thickness of its pipeline
BarAt(xoff, yoff) ==
    /\ last.x = InputImage.w - last.size - xoff
    /\ last.y = InputImage.h - yoff

\* cv2.rectangle fills the columns x..x+size and the rows y..y+thickness
BarInside(thick) ==
    /\ 0 <= last.x
    /\ 0 <= last.y
    /\ last.x + last.size <= InputImage.w - 1
    /\ last.y + thick <= InputImage.h - 1

(* C10 as stated: for every image that reaches the drawing step the bar's    *)
(* corner is (width - bar - x_offset, height - y_offset) and the bar lies    *)
(* inside the image, in the generic pipeline for every width and height.     *)
C10_BarInsideAnyImage ==
    (Called /\ last.drawn)
        => IF pipeline = "generic"
           THEN last.size = 240 /\ BarAt(10, 35) /\ BarInside(25)
           ELSE BarAt(60, 80) /\ BarInside(30)

(* C10 amended: for every image that reaches the drawing step the bar's      *)
(* corner is (width - bar - x_offset, height - y_offset); the bar lies       *)
(* inside the image in the scope-specific pipeline for all six keys, and in  *)
(* the generic pipeline for every image at least 250 wide and 35 high.       *)
C10_BarInsideLargeEnough ==
    (Called /\ last.drawn)
        => IF pipeline = "generic"
           THEN /\ last.size = 240
                /\ BarAt(10, 35)
                /\ (InputImage.w >= 250 /\ InputImage.h >= 35) => BarInside(25)
           ELSE BarAt(60, 80) /\ BarInside(30)

C10_Witness ==
    /\ Called
    /\ last.drawn
    /\ pipeline = "generic"
    /\ InputImage.w = 250 /\ InputImage.h = 35
    /\ last.x = 0 /\ last.y = 0

----------------------------------------------------------------------------
(* Properties of directory mode *)

\* the children a run should take: the pipeline's extension, and no "_scaled"
\* marker in the file name
Eligible(listing) ==
    { p \in listing :
        /\ EndsWith(BaseName(p), IF pipeline = "generic" THEN PNG ELSE TIF)
        /\ ~Contains(BaseName(p), SCALED) }

\* a file name of the form <stem>_scaled.<ext>
IsOutputName(p) ==
    EndsWith(p, SCALED \o PNG) \/ EndsWith(p, SCALED \o TIF)

(* C3: over consecutive runs on the same directory, files named              *)
(* <stem>_scaled.<ext> are never taken as inputs; once the first run is      *)
(* over, the set of file names in the directory no longer changes, every     *)
(* later run attempts the same files as the first, and the processed count   *)
(* counts attempted files only.                                              *)
C3_RerunsAddNothing ==
    [][ /\ \A p \in walk'.attempted : ~IsOutputName(p)
        /\ runs >= 1 => DOMAIN fs' = DOMAIN fs
        /\ (runs' > runs /\ runs >= 1) => walk'.attempted = firstRun'
        /\ walk'.count <= Cardinality(walk'.attempted) ]_vars

(* C5: one file's failure does not abort the batch: whatever the order of    *)
(* the files and whatever each file's outcome, no exception leaves the       *)
(* walker, and the run ends with every eligible file attempted.              *)
C5_BatchRunsToItsEnd ==
    /\ walk.status # "crashed"
    /\ (Called /\ walk.status # "idle") => last.outcome \notin Exceptions
    /\ walk.status = "done" =>
          walk.attempted = { p \in walk.snapshot \cap
                                    Glob(fs, walk.dir, ExtOf(pipeline)) :
                                ~Skips(pipeline, p) }

(* C8: the files passed to add_scale_bar by a run are exactly the immediate  *)
(* children with the pipeline's extension whose file name does not contain   *)
(* "_scaled", for every directory path and every child name.                 *)
C8_ExactlyTheEligibleChildren ==
    walk.status = "done" => walk.attempted = Eligible(walk.snapshot)

============================================================================
